---- MODULE Spec2Model ----
(***************************************************************************)
(* CYK membership table construction and derivation-tree reconstruction   *)
(* of the CFG parser: parser.py / tree.py (library variant) and main.py   *)
(* (Streamlit variant).  Python indices are kept 0-based; a Python string *)
(* s is the TLA+ sequence with s[i] (Python) = string[i + 1].             *)
(***************************************************************************)
EXTENDS Integers, Sequences, FiniteSets, TLC

\* ------------------------------------------------------------ bounds
MaxRules == 4      \* productions in an enumerated grammar
MaxLen   == 3      \* characters in the input string
MaxSteps == 40     \* iterations of main.py's work-stack loop that are followed

\* ------------------------------------------------------------ inputs
Terminals == {"a", "b"}
Nonterminals == {"S", "T", "A", "B"}

\* One production "lhs -> rhs" as a grammar line gives it.
Rule(lhs, rhs) == <<lhs, rhs>>

RuleUniverse ==
    { Rule("S", <<"A", "B">>), Rule("S", <<"A">>),      Rule("A", <<"a">>),
      Rule("B", <<"b">>),      Rule("S", <<"T", "A">>), Rule("S", <<"A", "A">>),
      Rule("T", <<"A", "A">>), Rule("A", <<"A", "T">>) }

\* The grammar the UI offers by default: S -> A B | B A | A, A -> a | S, B -> b
DefaultGrammarText ==
    << Rule("S", <<"A", "B">>), Rule("S", <<"B", "A">>), Rule("S", <<"A">>),
       Rule("A", <<"a">>),      Rule("A", <<"S">>),      Rule("B", <<"b">>) >>

\* The grammar of parser.py's docstring: S -> A B | B A over A -> a, B -> b
DocstringGrammarText ==
    << Rule("S", <<"A", "B">>), Rule("S", <<"B", "A">>),
       Rule("A", <<"a">>),      Rule("B", <<"b">>) >>

RuleSeqs ==
    { rs \in UNION { [1..k -> RuleUniverse] : k \in 1..MaxRules } :
        \A x, y \in 1..Len(rs) : x # y => rs[x] # rs[y] }

Strings == UNION { [1..k -> Terminals] : k \in 0..MaxLen }

\* text_to_json: productions are grouped under their left-hand side; the keys
\* keep the order of their first appearance, the productions their order.
AddRule(g, rule) ==
    IF \E x \in 1..Len(g) : g[x].lhs = rule[1]
    THEN [x \in 1..Len(g) |->
            IF g[x].lhs = rule[1] THEN [g[x] EXCEPT !.rhs = Append(@, rule[2])]
            ELSE g[x]]
    ELSE Append(g, [lhs |-> rule[1], rhs |-> <<rule[2]>>])

RECURSIVE text_to_json_from(_, _, _)
text_to_json_from(rules, n, g) ==
    IF n > Len(rules) THEN g
    ELSE text_to_json_from(rules, n + 1, AddRule(g, rules[n]))

text_to_json(rules) == text_to_json_from(rules, 1, <<>>)

\* grammar.items() flattened in iteration order: <<lhs, production>> pairs.
RECURSIVE FlatFrom(_, _)
FlatFrom(g, x) ==
    IF x > Len(g) THEN <<>>
    ELSE [y \in 1..Len(g[x].rhs) |-> <<g[x].lhs, g[x].rhs[y]>>] \o FlatFrom(g, x + 1)

FlatRules(g) == FlatFrom(g, 1)

Max(S) == CHOOSE m \in S : \A o \in S : o <= m

Cells(n) == (0..(n - 1)) \X (0..(n - 1))

\* ------------------------------------------------------------ parser.py
\* rules = {tuple(rhs): lhs ...}: a later left-hand side replaces an earlier
\* one under the same right-hand side.
RulesHas(g, key) ==
    \E x \in 1..Len(g) : \E y \in 1..Len(g[x].rhs) : g[x].rhs[y] = key

RulesGet(g, key) ==
    g[Max({x \in 1..Len(g) : \E y \in 1..Len(g[x].rhs) : g[x].rhs[y] = key})].lhs

ParserDiagonal(g, string, i) ==
    { g[x].lhs : x \in {x \in 1..Len(g) :
                          \E y \in 1..Len(g[x].rhs) : g[x].rhs[y] = <<string[i + 1]>>} }

ParserCell(g, table, i, j) ==
    { RulesGet(g, p) :
        p \in { q \in UNION { table[<<i, k>>] \X table[<<k + 1, j>>] : k \in i..(j - 1) } :
                  RulesHas(g, q) } }

RECURSIVE ParserFill(_, _, _, _)
ParserFill(g, table, n, length) ==
    IF length > n THEN table
    ELSE ParserFill(g,
            [c \in Cells(n) |->
                IF c[2] - c[1] + 1 = length THEN ParserCell(g, table, c[1], c[2])
                ELSE table[c]],
            n, length + 1)

ParserTable(g, string) ==
    LET n == Len(string)
        diag == [c \in Cells(n) |->
                    IF c[1] = c[2] THEN ParserDiagonal(g, string, c[1]) ELSE {}]
    IN  ParserFill(g, diag, n, 2)

\* ------------------------------------------------------------ main.py cyk_parser
MainDiagonal(g, string, i) ==
    { g[x].lhs : x \in {x \in 1..Len(g) :
                          \E y \in 1..Len(g[x].rhs) :
                             /\ Len(g[x].rhs[y]) = 1
                             /\ g[x].rhs[y][1] = string[i + 1]} }

BinaryMatchesOr(table, production, start, split, end) ==
    \/ production[1] \in table[<<start, split>>]
    \/ production[2] \in table[<<split + 1, end>>]

BinaryMatches(table, production, start, split, end) ==
    /\ production[1] \in table[<<start, split>>]
    /\ production[2] \in table[<<split + 1, end>>]

\* The two innermost loops for one split: every production in order, each
\* reading the cell as the earlier ones left it.
RECURSIVE MainSplitPass(_, _, _, _, _, _, _)
MainSplitPass(flat, p, table, cell, start, split, end) ==
    IF p > Len(flat) THEN cell
    ELSE LET lhs == flat[p][1]
             production == flat[p][2]
             hit == IF Len(production) = 2
                    THEN BinaryMatches(table, production, start, split, end)
                    ELSE IF Len(production) = 1 THEN production[1] \in cell
                    ELSE FALSE
         IN  MainSplitPass(flat, p + 1, table,
                           IF hit THEN cell \cup {lhs} ELSE cell, start, split, end)

RECURSIVE MainCell(_, _, _, _, _, _)
MainCell(flat, table, cell, start, split, end) ==
    IF split >= end THEN cell
    ELSE MainCell(flat, table,
                  MainSplitPass(flat, 1, table, cell, start, split, end),
                  start, split + 1, end)

RECURSIVE MainFill(_, _, _, _)
MainFill(g, table, n, length) ==
    IF length > n THEN table
    ELSE MainFill(g,
            [c \in Cells(n) |->
                IF c[2] - c[1] + 1 = length
                THEN MainCell(FlatRules(g), table, table[c], c[1], c[1], c[2])
                ELSE table[c]],
            n, length + 1)

MainTable(g, string) ==
    LET n == Len(string)
        diag == [c \in Cells(n) |->
                    IF c[1] = c[2] THEN MainDiagonal(g, string, c[1]) ELSE {}]
    IN  MainFill(g, diag, n, 2)

\* ------------------------------------------------------------ state
VARIABLES grammar, string, pc,
          ptable, pverdict, presult, ptree,
          mtable, mverdict, mresult,
          stack, heap, nodes, root, steps

vars == <<grammar, string, pc, ptable, pverdict, presult, ptree,
          mtable, mverdict, mresult, stack, heap, nodes, root, steps>>

None == [symbol |-> "None", children |-> <<>>]

Node(symbol, children) == [symbol |-> symbol, children |-> children]

Init ==
    /\ \E rules \in RuleSeqs \cup {DefaultGrammarText, DocstringGrammarText} : grammar = text_to_json(rules)
    /\ string \in Strings
    /\ pc = "start"
    /\ ptable = <<>> /\ pverdict = FALSE /\ presult = "none" /\ ptree = None
    /\ mtable = <<>> /\ mverdict = FALSE /\ mresult = "none"
    /\ stack = <<>> /\ heap = <<>> /\ nodes = {} /\ root = 0 /\ steps = 0

\* parser.py cyk_parser(grammar, string): with n = 0 the table is [] and
\* table[0] raises IndexError.
ParserCyk ==
    /\ pc = "start"
    /\ IF Len(string) = 0
       THEN /\ presult' = "IndexError"
            /\ UNCHANGED <<ptable, pverdict>>
       ELSE /\ presult' = "ok"
            /\ ptable' = ParserTable(grammar, string)
            /\ pverdict' = ("S" \in ptable'[<<0, Len(string) - 1>>])
    /\ pc' = "pparsed"
    /\ UNCHANGED <<grammar, string, ptree, mtable, mverdict, mresult,
                   stack, heap, nodes, root, steps>>

\* main.py cyk_parser(grammar, input_string)
MainCyk ==
    /\ pc = "start"
    /\ IF Len(string) = 0
       THEN /\ mresult' = "ValueError"
            /\ UNCHANGED <<mtable, mverdict>>
       ELSE /\ mresult' = "ok"
            /\ mtable' = MainTable(grammar, string)
            /\ mverdict' = (Cardinality(mtable'[<<0, Len(string) - 1>>]) > 0)
    /\ pc' = "mparsed"
    /\ UNCHANGED <<grammar, string, ptable, pverdict, presult, ptree,
                   stack, heap, nodes, root, steps>>

\* ------------------------------------------------------------ tree.py
\* <<k, x, y>>: split k and production y of the x-th key, in the order the three
\* nested loops of helper visit them.
LexLess(c, d) ==
    \/ c[1] < d[1]
    \/ c[1] = d[1] /\ c[2] < d[2]
    \/ c[1] = d[1] /\ c[2] = d[2] /\ c[3] < d[3]

HelperMatches(table, g, i, j) ==
    { c \in UNION { (i..(j - 1)) \X {x} \X (1..Len(g[x].rhs)) : x \in 1..Len(g) } :
        /\ Len(g[c[2]].rhs[c[3]]) = 2
        /\ g[c[2]].rhs[c[3]][1] \in table[<<i, c[1]>>]
        /\ g[c[2]].rhs[c[3]][2] \in table[<<c[1] + 1, j>>] }

RECURSIVE helper(_, _, _, _, _, _)
helper(table, g, str, i, j, symbol) ==
    IF i = j THEN Node(symbol, <<Node(str[i + 1], <<>>)>>)
    ELSE LET ms == HelperMatches(table, g, i, j)
         IN  IF ms = {} THEN None
             ELSE LET c == CHOOSE c \in ms : \A d \in ms : d = c \/ LexLess(c, d)
                      rhs == g[c[2]].rhs[c[3]]
                  IN  Node(g[c[2]].lhs,
                           << helper(table, g, str, i, c[1], rhs[1]),
                              helper(table, g, str, c[1] + 1, j, rhs[2]) >>)

\* tree.py build_derivation_tree(table, grammar, string), on parser.py's table
TreeBuild ==
    /\ pc = "pparsed"
    /\ presult = "ok"
    /\ ptree' = IF "S" \notin ptable[<<0, Len(string) - 1>>] THEN None
                ELSE helper(ptable, grammar, string, 0, Len(string) - 1, "S")
    /\ pc' = "pdone"
    /\ UNCHANGED <<grammar, string, ptable, pverdict, presult, mtable, mverdict,
                   mresult, stack, heap, nodes, root, steps>>

\* ------------------------------------------------------------ main.py build_derivation_tree
\* A Node object is its index in heap; 0 stands for Python's None.
FirstSplit(table, rhs, i, j) ==
    { k \in i..(j - 1) :
        /\ rhs[1] \in table[<<i, k>>]
        /\ rhs[2] \in table[<<k + 1, j>>]
        /\ \A k2 \in i..(k - 1) :
              ~(rhs[1] \in table[<<i, k2>>] /\ rhs[2] \in table[<<k2 + 1, j>>]) }

\* What the loop over one key's rhs_list appends to the stack, from production
\* y on; a unary hit breaks out of that loop, a binary hit only out of the
\* loop over the splits.
RECURSIVE PushesOfKey(_, _, _, _, _, _)
PushesOfKey(table, rhsList, y, i, j, node) ==
    IF y > Len(rhsList) THEN <<>>
    ELSE LET rhs == rhsList[y]
         IN  IF Len(rhs) = 2
             THEN LET ks == FirstSplit(table, rhs, i, j)
                      here == IF ks = {} THEN <<>>
                              ELSE LET k == CHOOSE k \in ks : TRUE
                                   IN  << <<i, k, rhs[1], node>>,
                                          <<k + 1, j, rhs[2], node>> >>
                  IN  here \o PushesOfKey(table, rhsList, y + 1, i, j, node)
             ELSE IF Len(rhs) = 1
             THEN IF rhs[1] \in table[<<i, j>>]
                  THEN << <<i, j, rhs[1], node>> >>
                  ELSE PushesOfKey(table, rhsList, y + 1, i, j, node)
             ELSE PushesOfKey(table, rhsList, y + 1, i, j, node)

RECURSIVE Pushes(_, _, _, _, _, _)
Pushes(table, g, x, i, j, node) ==
    IF x > Len(g) THEN <<>>
    ELSE PushesOfKey(table, g[x].rhs, 1, i, j, node)
            \o Pushes(table, g, x + 1, i, j, node)

\* list(grammar.keys())[0]
StartSymbol(g) == g[1].lhs

MainBuildStart ==
    /\ pc = "mparsed"
    /\ mresult = "ok"
    /\ LET n == Len(string)
           start_symbol == StartSymbol(grammar)
       IN  IF start_symbol \notin mtable[<<0, n - 1>>]
           THEN /\ pc' = "mdone"
                /\ stack' = <<>>
           ELSE /\ pc' = "loop"
                /\ stack' = << <<0, n - 1, start_symbol, 0>> >>
    /\ heap' = <<>> /\ nodes' = {} /\ root' = 0
    /\ UNCHANGED <<grammar, string, ptable, pverdict, presult, ptree,
                   mtable, mverdict, mresult, steps>>

\* One iteration of "while stack:".
MainBuildStep ==
    /\ pc = "loop"
    /\ stack # <<>>
    /\ steps < MaxSteps
    /\ LET top == stack[Len(stack)]
           rest == SubSeq(stack, 1, Len(stack) - 1)
           i == top[1]
           j == top[2]
           symbol == top[3]
           parent_node == top[4]
           known == { e \in nodes : e[1] = i /\ e[2] = j /\ e[3] = symbol }
           node == IF known # {} THEN (CHOOSE e \in known : TRUE)[4] ELSE Len(heap) + 1
           heap1 == IF known # {} THEN heap ELSE Append(heap, Node(symbol, <<>>))
           heap2 == IF parent_node # 0
                    THEN [heap1 EXCEPT ![parent_node].children = Append(@, node)]
                    ELSE heap1
       IN  /\ nodes' = IF known # {} THEN nodes ELSE nodes \cup {<<i, j, symbol, node>>}
           /\ root' = IF root = 0 THEN node ELSE root
           /\ IF i = j
              THEN /\ heap' = [Append(heap2, Node(string[i + 1], <<>>))
                                 EXCEPT ![node].children = Append(@, Len(heap2) + 1)]
                   /\ stack' = rest
              ELSE /\ heap' = heap2
                   /\ stack' = rest \o Pushes(mtable, grammar, 1, i, j, node)
    /\ steps' = steps + 1
    /\ UNCHANGED <<grammar, string, pc, ptable, pverdict, presult, ptree,
                   mtable, mverdict, mresult>>

\* The stack is empty: "return root".
MainBuildReturn ==
    /\ pc = "loop"
    /\ stack = <<>>
    /\ pc' = "mdone"
    /\ UNCHANGED <<grammar, string, ptable, pverdict, presult, ptree,
                   mtable, mverdict, mresult, stack, heap, nodes, root, steps>>

Next ==
    \/ ParserCyk
    \/ TreeBuild
    \/ MainCyk
    \/ MainBuildStart
    \/ MainBuildStep
    \/ MainBuildReturn

Spec == Init /\ [][Next]_vars
\* ------------------------------------------------------------ properties
n == Len(string)

AllProductions(g) ==
    UNION { { <<g[x].lhs, g[x].rhs[y]>> : y \in 1..Len(g[x].rhs) } : x \in 1..Len(g) }

\* Chomsky normal form: one terminal, or two nonterminals.
IsCNF(g) ==
    \A r \in AllProductions(g) :
        \/ Len(r[2]) = 1 /\ r[2][1] \in Terminals
        \/ Len(r[2]) = 2 /\ r[2][1] \in Nonterminals /\ r[2][2] \in Nonterminals

ParserDone == pc \in {"pparsed", "pdone"}
MainDone == pc \in {"mparsed", "loop", "mdone"}

\* C1: for a non-empty string the verdict is true iff the start symbol (the
\* first key of the grammar) is in table[0][n-1], in parser.py and in main.py.
C1_VerdictIffStartInTopCell ==
    /\ (ParserDone /\ presult = "ok") =>
          (pverdict <=> StartSymbol(grammar) \in ptable[<<0, n - 1>>])
    /\ (MainDone /\ mresult = "ok") =>
          (mverdict <=> StartSymbol(grammar) \in mtable[<<0, n - 1>>])

\* C2: for a CNF grammar, parser.py's table holds in cell (i,i) exactly the
\* nonterminals with production [string[i]], and in cell (i,j), i < j, exactly
\* the nonterminals A with a split k and a production A -> B C such that B is in
\* cell (i,k) and C in cell (k+1,j).
C2_ParserTableExact ==
    (ParserDone /\ presult = "ok" /\ IsCNF(grammar)) =>
        \A i \in 0..(n - 1) : \A j \in i..(n - 1) :
            ptable[<<i, j>>] =
                IF i = j
                THEN { r[1] : r \in { q \in AllProductions(grammar) :
                                        q[2] = <<string[i + 1]>> } }
                ELSE { r[1] : r \in { q \in AllProductions(grammar) :
                                        /\ Len(q[2]) = 2
                                        /\ \E k \in i..(j - 1) :
                                              /\ q[2][1] \in ptable[<<i, k>>]
                                              /\ q[2][2] \in ptable[<<k + 1, j>>] } }

\* C3: on the empty string cyk_parser raises no exception and reports the
\* string as not accepted.
C3_EmptyStringRejected ==
    n = 0 =>
        /\ ParserDone => (presult = "ok" /\ ~pverdict)
        /\ MainDone => (mresult = "ok" /\ ~mverdict)

\* The terminal leaves below a node of main.py's tree, left to right in the
\* order the children are stored.
RECURSIVE YieldSeq(_, _, _)
Yield(id, fuel) ==
    IF heap[id].children = <<>> THEN <<heap[id].symbol>>
    ELSE IF fuel = 0 THEN <<>>
    ELSE YieldSeq(heap[id].children, 1, fuel - 1)

YieldSeq(ids, x, fuel) ==
    IF x > Len(ids) THEN <<>>
    ELSE Yield(ids[x], fuel) \o YieldSeq(ids, x + 1, fuel)

RECURSIVE HeapTree(_, _)
HeapTree(id, fuel) ==
    Node(heap[id].symbol,
         IF fuel = 0 THEN <<>>
         ELSE [x \in 1..Len(heap[id].children) |->
                  HeapTree(heap[id].children[x], fuel - 1)])

\* C4: for a CNF grammar, the leaves of the tree main.py's build_derivation_tree
\* returns, read left to right, spell the input string; and grammar
\* {S: [[A,B],[B,A]], A: [[a]], B: [[b]]} with "ab" gives S(A(a), B(b)).
C4_YieldIsString ==
    (pc = "mdone" /\ root # 0 /\ IsCNF(grammar)) =>
        /\ Yield(root, Len(heap)) = string
        /\ (grammar = text_to_json(DocstringGrammarText) /\ string = <<"a", "b">>) =>
              HeapTree(root, Len(heap)) =
                  Node("S", << Node("A", <<Node("a", <<>>)>>),
                               Node("B", <<Node("b", <<>>)>>) >>)

RECURSIVE ChildrenAreProductions(_, _)
ChildrenAreProductions(g, t) ==
    \/ t.children = <<>>
    \/ /\ <<t.symbol, [x \in 1..Len(t.children) |-> t.children[x].symbol]>>
             \in AllProductions(g)
       /\ \A x \in 1..Len(t.children) : ChildrenAreProductions(g, t.children[x])

\* C5: for a CNF grammar, in the tree tree.py's build_derivation_tree returns
\* the child symbols of every nonterminal node form a production of that
\* node's own symbol.
C5_ChildrenMatchProduction ==
    (pc = "pdone" /\ ptree # None /\ IsCNF(grammar)) =>
        ChildrenAreProductions(grammar, ptree)

RECURSIVE Descendants(_, _)
Descendants(seen, frontier) ==
    IF frontier = {} THEN seen
    ELSE LET next == UNION { { heap[id].children[x] : x \in 1..Len(heap[id].children) } :
                             id \in frontier }
         IN  Descendants(seen \cup next, next \ seen)

\* C6: main.py's build_derivation_tree builds a finite acyclic tree and its
\* work stack runs empty, also with unary nonterminal rules: no node is ever
\* its own descendant.
C6_BuildAcyclic ==
    \A id \in 1..Len(heap) : id \notin Descendants({}, {id})

\* C7: every cell of main.py's table, single-character spans included, is
\* closed under the unary rules: B in cell (i,j) and A -> B give A in cell (i,j).
C7_UnaryClosed ==
    (MainDone /\ mresult = "ok") =>
        \A i \in 0..(n - 1) : \A j \in i..(n - 1) :
            \A r \in AllProductions(grammar) :
                (Len(r[2]) = 1 /\ r[2][1] \in Nonterminals /\ r[2][1] \in mtable[<<i, j>>])
                    => r[1] \in mtable[<<i, j>>]

\* No production is [c].
Unknown(g, c) == \A r \in AllProductions(g) : r[2] # <<c>>

\* C8: when string[p] is a character no production has as its single terminal,
\* cyk_parser raises nothing, every cell (i,j) with i <= p <= j is empty and
\* the string is not accepted, in parser.py and in main.py.
C8_UnknownCharEmptiesCells ==
    \A p \in 0..(n - 1) :
        Unknown(grammar, string[p + 1]) =>
            /\ ParserDone =>
                  /\ presult = "ok"
                  /\ ~pverdict
                  /\ \A i \in 0..p : \A j \in p..(n - 1) : ptable[<<i, j>>] = {}
            /\ MainDone =>
                  /\ mresult = "ok"
                  /\ ~mverdict
                  /\ \A i \in 0..p : \A j \in p..(n - 1) : mtable[<<i, j>>] = {}

\* main.py has parsed a string with an unknown character next to a span of two
\* or more characters that some nonterminal derives.
C8_Witness ==
    /\ pc = "mparsed"
    /\ mresult = "ok"
    /\ \E p \in 0..(n - 1) : Unknown(grammar, string[p + 1])
    /\ \E i \in 0..(n - 1) : \E j \in (i + 1)..(n - 1) : mtable[<<i, j>>] # {}

\* C9: for a CNF grammar with start symbol S, tree.py's build_derivation_tree
\* returns None exactly when S is not in table[0][n-1], and otherwise a tree
\* whose root is labelled S.
C9_RootIsStart ==
    (pc = "pdone" /\ IsCNF(grammar) /\ StartSymbol(grammar) = "S") =>
        /\ ptree = None <=> "S" \notin ptable[<<0, n - 1>>]
        /\ ptree # None => ptree.symbol = "S"

NodeIds == { e[4] : e \in nodes }

Occurrences(id) ==
    Cardinality({ c \in (1..Len(heap)) \X (1..Len(heap)) :
                    /\ c[2] <= Len(heap[c[1]].children)
                    /\ heap[c[1]].children[c[2]] = id })

\* C10: in the tree main.py's build_derivation_tree returns for a CNF grammar,
\* every nonterminal node has exactly two nonterminal children or exactly one
\* child, and every node but the root is a child exactly once.
C10_NodeShapeAndOwnership ==
    (pc = "mdone" /\ root # 0 /\ IsCNF(grammar)) =>
        /\ \A id \in NodeIds :
              \/ Len(heap[id].children) = 1
              \/ /\ Len(heap[id].children) = 2
                 /\ heap[id].children[1] \in NodeIds
                 /\ heap[id].children[2] \in NodeIds
        /\ \A id \in 1..Len(heap) : id # root => Occurrences(id) = 1
====
